---- MODULE Spec2Model ----
(***************************************************************************)
(* toorpia MCP server: the tool-call handler (src/src/server.ts), the      *)
(* session store and READY gate (src/src/middleware/guard.ts), request     *)
(* authentication (guard.ts, second half) and the audit recorder           *)
(* (src/src/utils/audit.ts).                                               *)
(*                                                                         *)
(* A tool call runs in two steps, split at its await on the backend: the   *)
(* part of the handler before the await and the continuation after it.     *)
(* Several calls may be in flight; their steps interleave, as do the       *)
(* timer-driven sweep and the passage of time.                             *)
(*                                                                         *)
(* Identifiers: a session id is sess_<Date.now()>_<random>, modelled as    *)
(* the record [ts, rnd]; the random suffix is modelled as a serial number, *)
(* i.e. two generated ids are assumed never to coincide.  An audit id is   *)
(* modelled as the number of the call.                                     *)
(***************************************************************************)
EXTENDS Integers, Sequences, FiniteSets, TLC

\* ------------------------------------------------------------------ bounds
MaxCalls == 2
MaxInFlight == 2
MaxTicks == 3
MaxApiOps == 2

\* ------------------------------------------------------- program constants
\* time advances in steps of 12 h; the clock reads 0 when the process starts
TickMs == 12 * 60 * 60 * 1000
\* guard.ts:189, default of cleanupSessions
maxAgeMs == 24 * 60 * 60 * 1000

None == "none"
Nil == << >>
Some(x) == << x >>

State == {"REGISTERED", "PROFILED", "SUGGESTED", "READY", "ANALYZED"}

\* the dataset ids tried
Datasets == {"d1"}

PresetResample == "resample_1m_ffill5_iqr3_z_by_gtag"
PresetSensor == "sensor_clean_outlier_norm"
PresetBasic == "basic_clean_norm"

\* what generatePreprocessSuggestions reads of a data profile; the profiles
\* the backend is taken to return: one with both findings, one with none
Profile(m, s) == [highMissing |-> m, sensor |-> s]
Profiles == { Profile(TRUE, TRUE), Profile(FALSE, FALSE) }

generatePreprocessSuggestions(profile) ==
    LET c1 == IF profile.highMissing THEN << PresetResample >> ELSE << >>
        c2 == IF profile.sensor THEN c1 \o << PresetSensor >> ELSE c1
    IN  IF Len(c2) = 0 THEN << PresetBasic >> ELSE c2

Range(s) == { s[i] : i \in DOMAIN s }

\* ------------------------------------------------------------- identities
Owner(u, t) == [user |-> u, tenant |-> t]
Alice == Owner("u1", "t1")
Bob == Owner("u2", "t1")
Carol == Owner("u1", "t2")
DevOwner == Owner("dev-user", "dev-tenant")

AuthContext(u, t, sc) == [user |-> u, tenant |-> t, scopes |-> sc]

\* authorization header of a request: absent, not of the form "Bearer <token>",
\* or a bearer token; verifies tells whether jwt.verify accepts the token and
\* sub and tenant are present, the other fields are its claims
Header(kind, verifies, u, t, sc) ==
    [kind |-> kind, verifies |-> verifies, sub |-> u, tenant |-> t, scopes |-> sc]
MissingHeader == Header("missing", FALSE, None, None, {})
MalformedHeader == Header("malformed", FALSE, None, None, {})
InvalidToken == Header("bearer", FALSE, "u1", "t1", {"mcp:profile", "mcp:analyze"})
Token(o, sc) == Header("bearer", TRUE, o.user, o.tenant, sc)

BadHeaders == {MissingHeader, MalformedHeader, InvalidToken}
GoodHeaders ==
    { Token(Alice, {"mcp:profile", "mcp:analyze"}), Token(Alice, {"mcp:profile"}),
      Token(Bob, {"*"}), Token(Carol, {"mcp:analyze"}) }
Headers == BadHeaders \cup GoodHeaders

Envs == [NODE_ENV : {"development", "production"}, SKIP_AUTH : {"true", "false"}]

\* ------------------------------------------------------------------ state
VARIABLES
    env,                \* process.env, fixed when the process starts
    now,                \* Date.now()
    sessions,           \* guard.ts: sessions, sessionId -> Session
    sessionsByDataset,  \* guard.ts: sessionsByDataset, datasetId -> sessionId
    issued,             \* every session id createSession has generated
    nCalls,             \* tool calls received so far
    calls,              \* calls suspended at their await, auditId -> frame
    auditLog,           \* var/logs/tool_calls.jsonl, one record per line
    responses,          \* what each finished call gave its caller, by auditId
    backendCalls,       \* requests the backend client has sent
    storeWrites,        \* audit ids of the calls that changed the store
    auditWritable,      \* whether appending to the audit file succeeds
    apiOps,             \* direct uses of the store's exported operations
    presented,          \* the Authorization header authenticateRequest is given
    verdict             \* what authenticateRequest made of it

vars == << env, now, sessions, sessionsByDataset, issued, nCalls, calls,
           auditLog, responses, backendCalls, storeWrites, auditWritable, apiOps,
           presented, verdict >>

\* ---------------------------------------------------------- session store
SessionId(ts, rnd) == [ts |-> ts, rnd |-> rnd]
UnknownSessionId == SessionId(0, 0)

\* sess_${Date.now()}_${random}
newSessionId(used) == SessionId(now, Cardinality(used) + 1)

Store(s, b, i) == [sessions |-> s, byDataset |-> b, issued |-> i]
CurrentStore == Store(sessions, sessionsByDataset, issued)

Put(f, k, v) == [x \in DOMAIN f \cup {k} |-> IF x = k THEN v ELSE f[x]]
Remove(f, ks) == [x \in DOMAIN f \ ks |-> f[x]]

\* createSession starting the session in READY without a processed record
createSessionReady(st, datasetId, suggestedPresetIds, owner) ==
    LET sessionId == newSessionId(st.issued)
        session == [datasetId |-> datasetId, state |-> "READY",
                    suggestedPresetIds |-> suggestedPresetIds,
                    processed |-> Nil, owner |-> owner]
    IN  [sessionId |-> sessionId,
         store |-> Store(Put(st.sessions, sessionId, session),
                         Put(st.byDataset, datasetId, sessionId),
                         st.issued \cup {sessionId})]

\* createSession leaving the dataset index on the session it already names
createSessionKeepIndex(st, datasetId, suggestedPresetIds, owner) ==
    LET sessionId == newSessionId(st.issued)
        session == [datasetId |-> datasetId, state |-> "SUGGESTED",
                    suggestedPresetIds |-> suggestedPresetIds,
                    processed |-> Nil, owner |-> owner]
    IN  [sessionId |-> sessionId,
         store |-> Store(Put(st.sessions, sessionId, session),
                         IF datasetId \in DOMAIN st.byDataset
                         THEN st.byDataset
                         ELSE Put(st.byDataset, datasetId, sessionId),
                         st.issued \cup {sessionId})]

createSession(st, datasetId, suggestedPresetIds, owner) ==
    LET sessionId == newSessionId(st.issued)
        session == [datasetId |-> datasetId, state |-> "SUGGESTED",
                    suggestedPresetIds |-> suggestedPresetIds,
                    processed |-> Nil, owner |-> owner]
    IN  [sessionId |-> sessionId,
         store |-> Store(Put(st.sessions, sessionId, session),
                         Put(st.byDataset, datasetId, sessionId),
                         st.issued \cup {sessionId})]

\* Session | undefined, as Some(session) | Nil
getSession(st, sessionId) ==
    IF sessionId \in DOMAIN st.sessions THEN Some(st.sessions[sessionId]) ELSE Nil

getSessionByDataset(st, datasetId) ==
    IF datasetId \in DOMAIN st.byDataset
    THEN getSession(st, st.byDataset[datasetId])
    ELSE Nil



\* updateSession forgetting the suggested presets of the session it updates
updateSessionClearPresets(st, sessionId, state, processed) ==
    IF sessionId \notin DOMAIN st.sessions
    THEN [ok |-> FALSE, store |-> st]
    ELSE LET old == st.sessions[sessionId]
             new == [old EXCEPT !.state = state,
                                !.suggestedPresetIds = << >>,
                                !.processed = IF processed # Nil THEN processed ELSE @]
         IN  [ok |-> TRUE,
              store |-> [st EXCEPT !.sessions = Put(st.sessions, sessionId, new)]]

\* updateSession reporting success for an id it does not hold
updateSessionAlwaysOk(st, sessionId, state, processed) ==
    IF sessionId \notin DOMAIN st.sessions
    THEN [ok |-> TRUE, store |-> st]
    ELSE LET old == st.sessions[sessionId]
             new == [old EXCEPT !.state = state,
                                !.processed = IF processed # Nil THEN processed ELSE @]
         IN  [ok |-> TRUE,
              store |-> [st EXCEPT !.sessions = Put(st.sessions, sessionId, new)]]

\* processed is Nil when the argument is omitted
updateSession(st, sessionId, state, processed) ==
    IF sessionId \notin DOMAIN st.sessions
    THEN [ok |-> FALSE, store |-> st]
    ELSE LET old == st.sessions[sessionId]
             new == [old EXCEPT !.state = state,
                                !.processed = IF processed # Nil THEN processed ELSE @]
         IN  [ok |-> TRUE,
              store |-> [st EXCEPT !.sessions = Put(st.sessions, sessionId, new)]]

\* cleanupSessions deleting the sessions only
cleanupSessionsKeepIndex(st, maxAge) ==
    LET expired == { sid \in DOMAIN st.sessions : now - sid.ts > maxAge }
    IN  [st EXCEPT !.sessions = Remove(st.sessions, expired)]


\* cleanupSessions sparing the sessions that are READY
cleanupSessionsSpareReady(st, maxAge) ==
    LET expired == { sid \in DOMAIN st.sessions :
                         /\ now - sid.ts > maxAge
                         /\ st.sessions[sid].state # "READY" }
        gone == { st.sessions[sid].datasetId : sid \in expired }
    IN  [st EXCEPT !.sessions = Remove(st.sessions, expired),
                   !.byDataset = Remove(st.byDataset, gone)]

cleanupSessions(st, maxAge) ==
    LET expired == { sid \in DOMAIN st.sessions : now - sid.ts > maxAge }
        gone == { st.sessions[sid].datasetId : sid \in expired }
    IN  [st EXCEPT !.sessions = Remove(st.sessions, expired),
                   !.byDataset = Remove(st.byDataset, gone)]

\* --------------------------------------------------------- error responses
errorNext(code, next, auditId) ==
    [shape |-> "ErrorResponse", tool |-> None, error |-> code, next |-> next,
     audit_id |-> auditId, success |-> "none", ready |-> FALSE,
     session_id |-> Nil, preset_id |-> None, candidates |-> << >>]

ToolResult(tool, success, auditId) ==
    [shape |-> "ToolResult", tool |-> tool, error |-> None, next |-> << >>,
     audit_id |-> auditId, success |-> success, ready |-> FALSE,
     session_id |-> Nil, preset_id |-> None, candidates |-> << >>]

\* a remediation call that always names the upload tool
NextActionUpload(tool, datasetId, preset) ==
    [tool |-> "toorpia_upload_data", dataset_id |-> datasetId, preset_id |-> preset]

\* a remediation call: the tool and the arguments the code pre-fills
NextAction(tool, datasetId, preset) ==
    [tool |-> tool, dataset_id |-> datasetId, preset_id |-> preset]

\* ---------------------------------------------------------------- the gate
\* checkReadyGate without the state check
checkReadyGateAnyState(st, sessionId, auth, auditId) ==
    IF sessionId \notin DOMAIN st.sessions
    THEN [passed |-> FALSE, session |-> Nil,
          error |-> errorNext("SESSION_NOT_FOUND",
                              << NextAction("toorpia_upload_data", None, None) >>, auditId)]
    ELSE LET session == st.sessions[sessionId]
         IN  IF session.owner.user # auth.user \/ session.owner.tenant # auth.tenant
             THEN [passed |-> FALSE, session |-> Nil,
                   error |-> errorNext("ACCESS_DENIED", << >>, auditId)]
             ELSE [passed |-> TRUE, session |-> Some(session), error |-> Nil]

\* checkReadyGate looking at the state before the owner
checkReadyGateStateFirst(st, sessionId, auth, auditId) ==
    IF sessionId \notin DOMAIN st.sessions
    THEN [passed |-> FALSE, session |-> Nil,
          error |-> errorNext("SESSION_NOT_FOUND",
                              << NextAction("toorpia_upload_data", None, None) >>, auditId)]
    ELSE LET session == st.sessions[sessionId]
         IN  IF session.state # "READY"
             THEN [passed |-> FALSE, session |-> Nil,
                   error |-> errorNext("PREPROCESS_REQUIRED", << >>, auditId)]
             ELSE IF session.owner.user # auth.user \/ session.owner.tenant # auth.tenant
             THEN [passed |-> FALSE, session |-> Nil,
                   error |-> errorNext("ACCESS_DENIED", << >>, auditId)]
             ELSE [passed |-> TRUE, session |-> Some(session), error |-> Nil]

checkReadyGate(st, sessionId, auth, auditId) ==
    IF sessionId \notin DOMAIN st.sessions
    THEN [passed |-> FALSE, session |-> Nil,
          error |-> errorNext("SESSION_NOT_FOUND",
                              << NextAction("toorpia_upload_data", None, None) >>, auditId)]
    ELSE LET session == st.sessions[sessionId]
         IN  IF session.owner.user # auth.user \/ session.owner.tenant # auth.tenant
             THEN [passed |-> FALSE, session |-> Nil,
                   error |-> errorNext("ACCESS_DENIED", << >>, auditId)]
             ELSE IF session.state # "READY"
             THEN LET nextActions ==
                          IF session.state = "REGISTERED"
                          THEN << NextAction("toorpia_suggest_preprocess",
                                          session.datasetId, None) >>
                          ELSE IF session.state = "SUGGESTED"
                          THEN << NextAction("toorpia_confirm_preprocessed",
                                      session.datasetId,
                                      IF Len(session.suggestedPresetIds) > 0
                                      THEN session.suggestedPresetIds[1]
                                      ELSE "preset_id") >>
                          ELSE << >>
                  IN  [passed |-> FALSE, session |-> Nil,
                       error |-> errorNext("PREPROCESS_REQUIRED", nextActions, auditId)]
             ELSE [passed |-> TRUE, session |-> Some(session), error |-> Nil]

\* checkScope satisfied by any scope at all
checkScopeAny(auth, requiredScope) ==
    auth.scopes # {}

checkScope(auth, requiredScope) ==
    requiredScope \in auth.scopes \/ "*" \in auth.scopes

generateAuditId(n) == n

\* --------------------------------------------------------- authentication
NoAuth == AuthContext(None, None, {})
DevAuth == AuthContext("dev-user", "dev-tenant", {"*"})

extractBearerToken(authHeader) ==
    IF authHeader.kind = "bearer" THEN Some(authHeader) ELSE Nil

\* jwt.verify and the sub/tenant check are the token's verifies flag
verifyJWT(token) ==
    IF token.verifies
    THEN [ok |-> TRUE, auth |-> AuthContext(token.sub, token.tenant, token.scopes),
          error |-> None]
    ELSE [ok |-> FALSE, auth |-> NoAuth, error |-> "JWT verification failed"]

authenticateRequest(authHeader, skipAuth) ==
    IF skipAuth \/ (env.NODE_ENV = "development" /\ env.SKIP_AUTH = "true")
    THEN [ok |-> TRUE, auth |-> DevAuth, error |-> None]
    ELSE LET token == extractBearerToken(authHeader)
         IN  IF token = Nil
             THEN [ok |-> FALSE, auth |-> NoAuth,
                   error |-> "Missing or invalid Authorization header"]
             ELSE LET v == verifyJWT(token[1])
                  IN  IF v.ok THEN v
                      ELSE [v EXCEPT !.error = "Authentication failed"]

\* the second argument the handler passes at server.ts:145
HandlerSkipAuth == env.NODE_ENV = "development"

\* ------------------------------------------------------------ tool inputs
Tools ==
    { "toorpia_upload_data", "toorpia_suggest_preprocess",
      "toorpia_confirm_preprocessed", "toorpia_run_analysis",
      "toorpia_get_status", "toorpia_collect_feedback", "no_such_tool" }

\* request.params.arguments; k is the shape of the object, "undefined" when
\* the request carries no arguments
UndefinedArgs == [k |-> "undefined"]
UploadArgs == [k |-> "upload", csv_data |-> "a,b"]
SuggestArgs(d) == [k |-> "suggest", dataset_id |-> d]
Manifest(p) ==
    [preset_id |-> p, profile_id |-> "profile_1", recipe_version |-> "v1.0",
     checksum |-> "sha256:c0ffee", row_count |-> 1000,
     schema |-> [time_col |-> "timestamp", value_cols |-> << "value1" >>]]
ConfirmArgs(d, p) ==
    [k |-> "confirm", dataset_id |-> d, processed_uri |-> "file://processed.csv",
     manifest |-> Manifest(p)]
RunArgs(sid) == [k |-> "run", session_id |-> sid]
StatusArgs == [k |-> "status", analysis_id |-> "analysis_1"]
FeedbackArgs == [k |-> "feedback", title |-> "t"]

ConfirmPresets == {PresetResample, PresetBasic, "not_suggested"}

\* the argument objects tried for a tool
ArgsFor(tool) ==
    {UndefinedArgs} \cup
    CASE tool = "toorpia_upload_data" -> {UploadArgs}
      [] tool = "toorpia_suggest_preprocess" -> { SuggestArgs(d) : d \in Datasets }
      [] tool = "toorpia_confirm_preprocessed" ->
             { ConfirmArgs(d, p) : d \in Datasets, p \in ConfirmPresets }
      [] tool = "toorpia_run_analysis" ->
             { RunArgs(sid) : sid \in issued \cup {UnknownSessionId} }
      [] tool = "toorpia_get_status" -> {StatusArgs}
      [] tool = "toorpia_collect_feedback" -> {FeedbackArgs}
      [] OTHER -> {}

\* <Schema>.parse(args) succeeds
Parses(schema, args) == args.k = schema

\* ------------------------------------------------------------ audit record
\* createHash('sha256')...digest: the digest as a term over its input
hashInput(input) == << "sha256", input >>


\* writeAuditLog writing the file anew instead of appending to it
writeAuditLogTruncating(log, auth, tool, input, success, auditId, presetId, sessionId, error, fsOk) ==
    IF input = UndefinedArgs
    THEN [threw |-> TRUE, log |-> log]
    ELSE LET auditEntry ==
                 [timestamp |-> now, user |-> auth.user, tenant |-> auth.tenant,
                  scopes |-> auth.scopes, tool |-> tool,
                  input_hash |-> hashInput(input), preset_id |-> presetId,
                  session_id |-> sessionId, audit_id |-> auditId,
                  success |-> success, error |-> error]
         IN  [threw |-> FALSE,
              log |-> IF fsOk THEN << auditEntry >> ELSE log]

\* threw: hashInput throws on undefined input, before the try block
writeAuditLog(log, auth, tool, input, success, auditId, presetId, sessionId, error, fsOk) ==
    IF input = UndefinedArgs
    THEN [threw |-> TRUE, log |-> log]
    ELSE LET auditEntry ==
                 [timestamp |-> now, user |-> auth.user, tenant |-> auth.tenant,
                  scopes |-> auth.scopes, tool |-> tool,
                  input_hash |-> hashInput(input), preset_id |-> presetId,
                  session_id |-> sessionId, audit_id |-> auditId,
                  success |-> success, error |-> error]
         IN  [threw |-> FALSE,
              log |-> IF fsOk THEN Append(log, auditEntry) ELSE log]

\* ------------------------------------------------------- the tool handlers
\* how the synchronous part of a handler ends: it throws, it returns a
\* result, or it suspends at an await on a backend operation
Throw(message) == [kind |-> "throw", message |-> message]
Return(result) == [kind |-> "return", result |-> result]
Await(op) == [kind |-> "await", op |-> op]


\* confirmPreprocessed answering a missing session with a pointer to upload
confirmPreprocessedBeginUpload(st, args, auth, auditId) ==
    LET session == getSessionByDataset(st, args.dataset_id)
    IN  IF session = Nil
        THEN Return(errorNext("SESSION_NOT_FOUND",
                 << NextAction("toorpia_upload_data", args.dataset_id, None) >>,
                 auditId))
        ELSE IF args.manifest.preset_id \notin Range(session[1].suggestedPresetIds)
        THEN Throw("Preprocessing confirmation failed: Invalid preset_id")
        ELSE Await("validateProcessedData")

\* confirmPreprocessed asking the backend before looking at the preset
confirmPreprocessedBeginNoPresetCheck(st, args, auth, auditId) ==
    LET session == getSessionByDataset(st, args.dataset_id)
    IN  IF session = Nil
        THEN Return(errorNext("SESSION_NOT_FOUND",
                 << NextAction("toorpia_suggest_preprocess", args.dataset_id, None) >>,
                 auditId))
        ELSE Await("validateProcessedData")

\* confirmPreprocessed up to its await on validateProcessedData
confirmPreprocessedBegin(st, args, auth, auditId) ==
    LET session == getSessionByDataset(st, args.dataset_id)
    IN  IF session = Nil
        THEN Return(errorNext("SESSION_NOT_FOUND",
                 << NextAction("toorpia_suggest_preprocess", args.dataset_id, None) >>,
                 auditId))
        ELSE IF args.manifest.preset_id \notin Range(session[1].suggestedPresetIds)
        THEN Throw("Preprocessing confirmation failed: Invalid preset_id")
        ELSE Await("validateProcessedData")

\* runAnalysis up to its await on runAnalysisWithSession; reading
\* session.processed!.uri of a session without processed throws inside the
\* try block, whose catch returns a failure result
runAnalysisBegin(st, args, auth, auditId) ==
    LET gateCheck == checkReadyGate(st, args.session_id, auth, auditId)
    IN  IF ~gateCheck.passed
        THEN Return(gateCheck.error)
        ELSE IF gateCheck.session[1].processed = Nil
        THEN Return([ToolResult("toorpia_run_analysis", "false", auditId)
                        EXCEPT !.session_id = Some(args.session_id)])
        ELSE Await("runAnalysisWithSession")

\* executeTool and the handler it dispatches to, up to the first await
executeTool(st, toolName, args, auth, auditId, fileOk) ==
    CASE toolName = "toorpia_upload_data" ->
             IF ~Parses("upload", args) THEN Throw("ZodError")
             ELSE Await("uploadData")
      [] toolName = "toorpia_suggest_preprocess" ->
             IF ~checkScope(auth, "mcp:profile")
             THEN Throw("Insufficient permissions: mcp:profile scope required")
             ELSE IF ~Parses("suggest", args) THEN Throw("ZodError")
             ELSE Await("getDataProfile")
      [] toolName = "toorpia_confirm_preprocessed" ->
             IF ~checkScope(auth, "mcp:profile")
             THEN Throw("Insufficient permissions: mcp:profile scope required")
             ELSE IF ~Parses("confirm", args) THEN Throw("ZodError")
             ELSE confirmPreprocessedBegin(st, args, auth, auditId)
      [] toolName = "toorpia_run_analysis" ->
             IF ~checkScope(auth, "mcp:analyze")
             THEN Throw("Insufficient permissions: mcp:analyze scope required")
             ELSE IF ~Parses("run", args) THEN Throw("ZodError")
             ELSE runAnalysisBegin(st, args, auth, auditId)
      [] toolName = "toorpia_get_status" ->
             IF ~Parses("status", args) THEN Throw("ZodError")
             ELSE Await("getAnalysisStatus")
      [] toolName = "toorpia_collect_feedback" ->
             IF ~Parses("feedback", args) THEN Throw("ZodError")
             ELSE Return(ToolResult("toorpia_collect_feedback",
                                    IF fileOk THEN "true" ELSE "false", auditId))
      [] OTHER -> Throw("Unknown tool")

\* what the backend client resolves to: ok is success (valid, for
\* validateProcessedData), profile the data profile of getDataProfile
NoProfile == Profile(FALSE, FALSE)
Replies(op) ==
    IF op = "getDataProfile"
    THEN { [ok |-> TRUE, profile |-> p] : p \in Profiles }
            \cup { [ok |-> FALSE, profile |-> NoProfile] }
    ELSE { [ok |-> b, profile |-> NoProfile] : b \in BOOLEAN }

Done(outcome, st) == [outcome |-> outcome, store |-> st]


\* suggestPreprocess creating the session before it looks at the outcome of
\* the profile call
suggestPreprocessResumeEager(st, args, auth, auditId, reply) ==
    LET candidates == IF reply.ok
                      THEN generatePreprocessSuggestions(reply.profile)
                      ELSE << >>
        c == createSession(st, args.dataset_id, candidates,
                           Owner(auth.user, auth.tenant))
    IN  IF ~reply.ok
        THEN Done(Throw("Preprocessing suggestion failed"), c.store)
        ELSE Done(Return([ToolResult(None, "none", auditId)
                             EXCEPT !.candidates = candidates,
                                    !.session_id = Some(c.sessionId)]),
                  c.store)

\* suggestPreprocess after getDataProfile resolved
suggestPreprocessResume(st, args, auth, auditId, reply) ==
    IF ~reply.ok
    THEN Done(Throw("Preprocessing suggestion failed"), st)
    ELSE LET candidates == generatePreprocessSuggestions(reply.profile)
             c == createSession(st, args.dataset_id, candidates,
                                Owner(auth.user, auth.tenant))
         IN  Done(Return([ToolResult(None, "none", auditId)
                             EXCEPT !.candidates = candidates,
                                    !.session_id = Some(c.sessionId)]),
                  c.store)

\* confirmPreprocessed updating the session the dataset index names when
\* the validation returns
confirmPreprocessedResumeByDataset(st, args, auth, auditId, reply) ==
    IF ~reply.ok
    THEN Done(Throw("Preprocessing confirmation failed: validation"), st)
    ELSE LET sessionId == IF args.dataset_id \in DOMAIN st.byDataset
                          THEN st.byDataset[args.dataset_id]
                          ELSE UnknownSessionId
             u == updateSession(st, sessionId, "READY",
                      Some([uri |-> args.processed_uri,
                            checksum |-> args.manifest.checksum,
                            presetId |-> args.manifest.preset_id,
                            profileId |-> args.manifest.profile_id,
                            recipeVersion |-> args.manifest.recipe_version,
                            rowCount |-> args.manifest.row_count,
                            schema |-> args.manifest.schema]))
         IN  IF ~u.ok
             THEN Done(Throw("Preprocessing confirmation failed: Failed to update session state"),
                       u.store)
             ELSE Done(Return([ToolResult(None, "none", auditId)
                                  EXCEPT !.ready = TRUE,
                                         !.session_id = Some(sessionId)]),
                       u.store)

\* confirmPreprocessed after validateProcessedData resolved
confirmPreprocessedResume(st, args, auth, auditId, reply) ==
    IF ~reply.ok
    THEN Done(Throw("Preprocessing confirmation failed: validation"), st)
    ELSE LET sessionId == newSessionId(st.issued)
             u == updateSession(st, sessionId, "READY",
                      Some([uri |-> args.processed_uri,
                            checksum |-> args.manifest.checksum,
                            presetId |-> args.manifest.preset_id,
                            profileId |-> args.manifest.profile_id,
                            recipeVersion |-> args.manifest.recipe_version,
                            rowCount |-> args.manifest.row_count,
                            schema |-> args.manifest.schema]))
         IN  IF ~u.ok
             THEN Done(Throw("Preprocessing confirmation failed: Failed to update session state"),
                       u.store)
             ELSE Done(Return([ToolResult(None, "none", auditId)
                                  EXCEPT !.ready = TRUE,
                                         !.session_id = Some(sessionId)]),
                       u.store)

\* runAnalysis putting the session back to SUGGESTED after the analysis
runAnalysisResumeRegress(st, args, auth, auditId, reply) ==
    LET u == updateSession(st, args.session_id, "SUGGESTED", Nil)
    IN  Done(Return([ToolResult("toorpia_run_analysis",
                                IF reply.ok THEN "true" ELSE "false", auditId)
                        EXCEPT !.session_id = Some(args.session_id)]),
             u.store)

\* runAnalysis after runAnalysisWithSession resolved
runAnalysisResume(st, args, auth, auditId, reply) ==
    LET u == updateSession(st, args.session_id, "ANALYZED", Nil)
    IN  Done(Return([ToolResult("toorpia_run_analysis",
                                IF reply.ok THEN "true" ELSE "false", auditId)
                        EXCEPT !.session_id = Some(args.session_id)]),
             u.store)

\* the continuation of a suspended call
resume(st, frame, auditId, reply) ==
    CASE frame.op = "getDataProfile" ->
             suggestPreprocessResume(st, frame.args, frame.auth, auditId, reply)
      [] frame.op = "validateProcessedData" ->
             confirmPreprocessedResume(st, frame.args, frame.auth, auditId, reply)
      [] frame.op = "runAnalysisWithSession" ->
             runAnalysisResume(st, frame.args, frame.auth, auditId, reply)
      [] OTHER ->
             Done(Return(ToolResult(frame.tool,
                                    IF reply.ok THEN "true" ELSE "false", auditId)), st)


\* the end of the handler if a failed append of the audit record were thrown
\* into the handler's catch block
handlerTailAuditThrows(log, auditId, toolName, args, header, a, outcome, fsOk) ==
    LET catchPath(message) ==
            LET a2 == authenticateRequest(header, TRUE)
                w2 == IF a2.ok
                      THEN writeAuditLog(log, a2.auth, toolName, args, FALSE,
                                         auditId, None, Nil, message, fsOk)
                      ELSE [threw |-> FALSE, log |-> log]
            IN  [log |-> w2.log, thrown |-> TRUE, message |-> message,
                 result |-> Nil]
    IN  IF a.ok /\ outcome.kind = "return"
        THEN LET result == outcome.result
                 w == writeAuditLog(log, a.auth, toolName, args, TRUE, auditId,
                                    result.preset_id, result.session_id, None, fsOk)
             IN  IF w.threw
                 THEN catchPath("TypeError")
                 ELSE IF ~fsOk
                 THEN catchPath("EIO")
                 ELSE [log |-> w.log, thrown |-> FALSE, message |-> None,
                       result |-> Some(result)]
        ELSE catchPath(IF a.ok THEN outcome.message ELSE a.error)

\* --------------------------------------------- the CallToolRequest handler
\* the end of the handler: the success path audits and answers with the
\* result, the catch path authenticates again with skipAuth = true, audits
\* the error unless that throws, and answers with an McpError
handlerTail(log, auditId, toolName, args, header, a, outcome, fsOk) ==
    LET catchPath(message) ==
            LET a2 == authenticateRequest(header, TRUE)
                w2 == IF a2.ok
                      THEN writeAuditLog(log, a2.auth, toolName, args, FALSE,
                                         auditId, None, Nil, message, fsOk)
                      ELSE [threw |-> FALSE, log |-> log]
            IN  [log |-> w2.log, thrown |-> TRUE, message |-> message,
                 result |-> Nil]
    IN  IF a.ok /\ outcome.kind = "return"
        THEN LET result == outcome.result
                 w == writeAuditLog(log, a.auth, toolName, args, TRUE, auditId,
                                    result.preset_id, result.session_id, None, fsOk)
             IN  IF w.threw
                 THEN catchPath("TypeError")
                 ELSE [log |-> w.log, thrown |-> FALSE, message |-> None,
                       result |-> Some(result)]
        ELSE catchPath(IF a.ok THEN outcome.message ELSE a.error)

\* the session a call addresses (confirm by dataset id, run_analysis by
\* session id), as the store held it while the synchronous part of the
\* handler ran; recorded for the properties, not read by the handlers
AtCall(sid, session) == [sid |-> sid, session |-> session]
NoneAtCall == AtCall(Nil, Nil)
Addressed(st, toolName, args) ==
    IF toolName = "toorpia_confirm_preprocessed" /\ Parses("confirm", args)
    THEN IF args.dataset_id \in DOMAIN st.byDataset
         THEN AtCall(Some(st.byDataset[args.dataset_id]),
                     getSessionByDataset(st, args.dataset_id))
         ELSE NoneAtCall
    ELSE IF toolName = "toorpia_run_analysis" /\ Parses("run", args)
    THEN AtCall(Some(args.session_id), getSession(st, args.session_id))
    ELSE NoneAtCall

\* a call suspended at its await
Frame(toolName, args, header, auth, op, atCall) ==
    [tool |-> toolName, args |-> args, header |-> header, authed |-> TRUE,
     auth |-> auth, op |-> op, atCall |-> atCall]

\* a finished call: its request, what it resolved and addressed, the
\* backend's answer (if it got to ask) and its own answer
Finished(toolName, args, header, a, op, atCall, reply, t) ==
    [tool |-> toolName, args |-> args, header |-> header,
     authed |-> a.ok, auth |-> a.auth, op |-> op, atCall |-> atCall,
     replyOk |-> reply, thrown |-> t.thrown, message |-> t.message,
     result |-> t.result]

BackendCall(auditId, op) == [audit_id |-> auditId, op |-> op]

Init ==
    /\ env \in Envs
    /\ now = 0
    /\ sessions = << >>
    /\ sessionsByDataset = << >>
    /\ issued = {}
    /\ nCalls = 0
    /\ calls = << >>
    /\ auditLog = << >>
    /\ responses = << >>
    /\ backendCalls = {}
    /\ storeWrites = {}
    /\ auditWritable = TRUE
    /\ apiOps = 0
    /\ presented = Nil
    /\ verdict = Nil

\* a request arrives: the handler runs to its first await, or to its end
Begin(toolName, args, header) ==
    /\ nCalls < MaxCalls
    /\ Cardinality(DOMAIN calls) < MaxInFlight
    /\ \E fileOk \in BOOLEAN :
        LET fsOk == auditWritable
            auditId == generateAuditId(nCalls + 1)
            a == authenticateRequest(header, HandlerSkipAuth)
            step == IF a.ok
                    THEN executeTool(CurrentStore, toolName, args, a.auth, auditId, fileOk)
                    ELSE Throw(a.error)
        IN  /\ nCalls' = nCalls + 1
            /\ IF step.kind = "await"
               THEN /\ calls' = Put(calls, auditId,
                                    Frame(toolName, args, header, a.auth, step.op,
                                          Addressed(CurrentStore, toolName, args)))
                    /\ backendCalls' = backendCalls
                            \cup {BackendCall(auditId, step.op)}
                    /\ UNCHANGED << auditLog, responses >>
               ELSE LET t == handlerTail(auditLog, auditId, toolName, args,
                                         header, a, step, fsOk)
                    IN  /\ auditLog' = t.log
                        /\ responses' = Put(responses, auditId,
                               Finished(toolName, args, header, a, None,
                                        Addressed(CurrentStore, toolName, args),
                                        "none", t))
                        /\ UNCHANGED << calls, backendCalls >>
    /\ UNCHANGED << presented, verdict, env, now, sessions, sessionsByDataset, issued, storeWrites,
                    auditWritable, apiOps >>

CallToolFrom(T, H) ==
    \E toolName \in T, header \in H :
        \E args \in ArgsFor(toolName) : Begin(toolName, args, header)

CallTool == CallToolFrom(Tools, Headers)

\* the backend answers a suspended call, which runs to its end
Resume ==
    \E auditId \in DOMAIN calls :
        LET frame == calls[auditId]
        IN  \E reply \in Replies(frame.op) :
                LET fsOk == auditWritable
                    r == resume(CurrentStore, frame, auditId, reply)
                    a == [ok |-> TRUE, auth |-> frame.auth, error |-> None]
                    t == handlerTail(auditLog, auditId, frame.tool, frame.args,
                                     frame.header, a, r.outcome, fsOk)
                IN  /\ sessions' = r.store.sessions
                    /\ sessionsByDataset' = r.store.byDataset
                    /\ issued' = r.store.issued
                    /\ calls' = Remove(calls, {auditId})
                    /\ auditLog' = t.log
                    /\ responses' = Put(responses, auditId,
                           Finished(frame.tool, frame.args, frame.header, a,
                                    frame.op, frame.atCall,
                                    IF reply.ok THEN "true" ELSE "false", t))
                    /\ storeWrites' = IF r.store # CurrentStore
                                       THEN storeWrites \cup {auditId}
                                       ELSE storeWrites
                    /\ UNCHANGED << presented, verdict, env, now, nCalls, backendCalls, auditWritable,
                                    apiOps >>

\* the sweep, at startup and from the hourly timer (server.ts:56-57)
Sweep ==
    LET st == cleanupSessions(CurrentStore, maxAgeMs)
    IN  /\ sessions' = st.sessions
        /\ sessionsByDataset' = st.byDataset
        /\ UNCHANGED << presented, verdict, env, now, issued, nCalls, calls, auditLog, responses,
                        backendCalls, storeWrites, auditWritable, apiOps >>

\* the audit file stops accepting appends (writeFileSync throws from now
\* on); of interest only while some call has still to write its record
AuditDiskFails ==
    /\ auditWritable
    /\ nCalls < MaxCalls \/ DOMAIN calls # {}
    /\ auditWritable' = FALSE
    /\ UNCHANGED << presented, verdict, env, now, sessions, sessionsByDataset, issued, nCalls, calls,
                    auditLog, responses, backendCalls, storeWrites, apiOps >>

\* time passes; only differences now - ts are ever read, so the clock is
\* left standing while the store holds no session
Tick ==
    /\ now < MaxTicks * TickMs
    /\ DOMAIN sessions # {}
    /\ now' = now + TickMs
    /\ UNCHANGED << presented, verdict, env, sessions, sessionsByDataset, issued, nCalls, calls,
                    auditLog, responses, backendCalls, storeWrites, auditWritable, apiOps >>

Next == CallTool \/ Resume \/ Sweep \/ Tick \/ AuditDiskFails

Spec == Init /\ [][Next]_vars

\* ------------------------------------------- the store driven from outside
\* guard.ts exports createSession and updateSession; SpecStore lets a client
\* of the module call them directly, with any arguments of their types, next
\* to run_analysis calls, the sweep and the clock.  The server runs in
\* production.
Production == [NODE_ENV |-> "production", SKIP_AUTH |-> "false"]

ApiOwners == {Alice, Carol}
ApiPresetLists == { << PresetResample, PresetSensor >>, << >> }
ApiProcessed ==
    [uri |-> "file://processed.csv", checksum |-> "sha256:c0ffee",
     presetId |-> PresetResample, profileId |-> "profile_1",
     recipeVersion |-> "v1.0", rowCount |-> 1000,
     schema |-> [time_col |-> "timestamp", value_cols |-> << "value1" >>]]

ApiCreateSession ==
    /\ apiOps < MaxApiOps
    /\ \E d \in Datasets, presets \in ApiPresetLists, owner \in ApiOwners :
        LET c == createSession(CurrentStore, d, presets, owner)
        IN  /\ sessions' = c.store.sessions
            /\ sessionsByDataset' = c.store.byDataset
            /\ issued' = c.store.issued
    /\ apiOps' = apiOps + 1
    /\ UNCHANGED << presented, verdict, env, now, nCalls, calls, auditLog, responses, backendCalls,
                    storeWrites, auditWritable >>

ApiUpdateSession ==
    /\ apiOps < MaxApiOps
    /\ \E sid \in issued \cup {UnknownSessionId}, state \in State,
          processed \in {Nil, Some(ApiProcessed)} :
        LET u == updateSession(CurrentStore, sid, state, processed)
        IN  /\ sessions' = u.store.sessions
            /\ sessionsByDataset' = u.store.byDataset
            /\ issued' = u.store.issued
    /\ apiOps' = apiOps + 1
    /\ UNCHANGED << presented, verdict, env, now, nCalls, calls, auditLog, responses, backendCalls,
                    storeWrites, auditWritable >>

StoreCallers ==
    { Token(Alice, {"mcp:profile", "mcp:analyze"}), Token(Bob, {"*"}),
      Token(Carol, {"mcp:analyze"}) }

RunAnalysisCall == CallToolFrom({"toorpia_run_analysis"}, StoreCallers)

InitStore == Init /\ env = Production

NextStore ==
    ApiCreateSession \/ ApiUpdateSession \/ RunAnalysisCall \/ Resume \/ Sweep \/ Tick

SpecStore == InitStore /\ [][NextStore]_vars


\* -------------------------------------------------- the sweep on its timer
\* SpecSweep: the store driven through createSession and updateSession, the
\* clock, and the sweep.  setInterval(() => cleanupSessions(), 60 * 60 * 1000)
\* (server.ts:57) fires the sweep every hour for as long as the process
\* runs, so a sweep that has something to remove is not put off for ever:
\* weak fairness of Sweep.
NextSweep == ApiCreateSession \/ ApiUpdateSession \/ Sweep \/ Tick

SpecSweep == InitStore /\ [][NextSweep]_vars /\ WF_vars(Sweep)

\* --------------------------------------------- confirm calls on the store
\* SpecConfirm: sessions are created through createSession (what
\* suggestPreprocess does once the profile is there) and two identities call
\* toorpia_confirm_preprocessed, their calls overlapping at the await on the
\* backend's validation.
ConfirmCallers == { Token(Alice, {"mcp:profile", "mcp:analyze"}), Token(Bob, {"*"}) }

ConfirmCall == CallToolFrom({"toorpia_confirm_preprocessed"}, ConfirmCallers)

NextConfirm == ApiCreateSession \/ ConfirmCall \/ Resume \/ Sweep \/ Tick

SpecConfirm == InitStore /\ [][NextConfirm]_vars

\* ------------------------------------------------- authentication, in full
\* SpecAuth: authenticateRequest applied to one Authorization header, with
\* the token's signature, audience, times and claims, the verification key
\* configuration of process.env and the clock all written out.  Times are
\* seconds, as in the token; the clock is Math.floor(Date.now() / 1000).
MaxScopeLen == 3

\* jwt.verify options at guard.ts:285-291
clockTolerance == 120
maxAge == 15 * 60
Audience == "toorpia-mcp"

Minutes(n) == n * 60

\* a string is the sequence of its characters
Chars == {"a", "b", " "}
Strings == UNION { [1..k -> Chars] : k \in 0..MaxScopeLen }

\* a claim of the payload with its JavaScript type
Claim(type, value) == [type |-> type, value |-> value]
Undefined == Claim("undefined", << >>)

JWTPayload(sub, tenant, scope, scopes, iat, exp) ==
    [sub |-> sub, tenant |-> tenant, scope |-> scope, scopes |-> scopes,
     iat |-> iat, exp |-> exp]

\* a token: whether its signature verifies under the key, its audience and
\* its payload
Jwt(signed, aud, payload) == [signed |-> signed, aud |-> aud, payload |-> payload]

\* String.prototype.split on a one-character separator
RECURSIVE splitFrom(_, _, _)
splitFrom(s, sep, cur) ==
    IF s = << >> THEN << cur >>
    ELSE IF Head(s) = sep THEN << cur >> \o splitFrom(Tail(s), sep, << >>)
    ELSE splitFrom(Tail(s), sep, Append(cur, Head(s)))

split(s, sep) == splitFrom(s, sep, << >>)

\* parseScopes keeping the empty segments of the string claim
parseScopesUnfiltered(payload) ==
    IF payload.scopes.type = "array"
    THEN payload.scopes.value
    ELSE IF payload.scope.type = "string" /\ payload.scope.value # << >>
    THEN split(payload.scope.value, " ")
    ELSE << >>

parseScopes(payload) ==
    IF payload.scopes.type = "array"
    THEN payload.scopes.value
    ELSE IF payload.scope.type = "string" /\ payload.scope.value # << >>
    THEN SelectSeq(split(payload.scope.value, " "), LAMBDA x : Len(x) > 0)
    ELSE << >>

\* process.env.AUTH_PUBLIC_KEY (set or not) and what AUTH_JWKS_URL serves:
\* a certificate, RSA components only, no usable key, or nothing at all
KeyEnv(publicKey, jwks) == [AUTH_PUBLIC_KEY |-> publicKey, AUTH_JWKS_URL |-> jwks]
KeyEnvs ==
    { KeyEnv(TRUE, j) : j \in {"unset", "unreachable"} }
        \cup { KeyEnv(FALSE, j) : j \in {"unset", "x5c", "rsa", "nokey", "unreachable"} }

getPublicKey(e) ==
    IF e.AUTH_PUBLIC_KEY THEN [ok |-> TRUE, error |-> None]
    ELSE IF e.AUTH_JWKS_URL = "x5c" THEN [ok |-> TRUE, error |-> None]
    ELSE IF e.AUTH_JWKS_URL \in {"rsa", "unreachable"}
    THEN [ok |-> FALSE, error |-> "Failed to fetch JWT public key from JWKS URL"]
    ELSE [ok |-> FALSE, error |-> "No JWT verification method configured"]

\* jsonwebtoken's verify with the options of guard.ts:285-291: signature,
\* then exp, then audience, then maxAge, which bounds the token's age
\* (clock - iat) and needs iat
jwtVerify(token, clockTimestamp) ==
    IF ~token.signed THEN [ok |-> FALSE, error |-> "invalid signature"]
    ELSE IF token.payload.exp # Nil
            /\ clockTimestamp >= token.payload.exp[1] + clockTolerance
    THEN [ok |-> FALSE, error |-> "jwt expired"]
    ELSE IF token.aud # Audience THEN [ok |-> FALSE, error |-> "jwt audience invalid"]
    ELSE IF token.payload.iat = Nil
    THEN [ok |-> FALSE, error |-> "iat required when maxAge is specified"]
    ELSE IF clockTimestamp >= token.payload.iat[1] + maxAge + clockTolerance
    THEN [ok |-> FALSE, error |-> "maxAge exceeded"]
    ELSE [ok |-> TRUE, error |-> None]

\* verifyJWT; an error message is the sequence of its parts
verifyJWTAt(token, e, clockTimestamp) ==
    LET key == getPublicKey(e)
        v == jwtVerify(token, clockTimestamp)
        failed(inner) == [ok |-> FALSE, auth |-> NoAuth,
                          error |-> << "JWT verification failed", inner >>]
    IN  IF ~key.ok THEN failed(key.error)
        ELSE IF ~v.ok THEN failed(v.error)
        ELSE IF token.payload.sub = "" \/ token.payload.tenant = ""
        THEN failed("JWT missing required fields: sub or tenant")
        ELSE [ok |-> TRUE,
              auth |-> AuthContext(token.payload.sub, token.payload.tenant,
                                   Range(parseScopes(token.payload))),
              error |-> << >>]

\* the Authorization header: absent, without the Bearer prefix, or a token
BearerHeader(token) == [kind |-> "bearer", token |-> token]
NoBearerHeader(kind) == [kind |-> kind, token |-> Nil]

authenticateRequestAt(authHeader, skipAuth, e, clockTimestamp) ==
    IF skipAuth \/ (e.NODE_ENV = "development" /\ e.SKIP_AUTH = "true")
    THEN [ok |-> TRUE, auth |-> DevAuth, error |-> << >>]
    ELSE LET token == extractBearerToken(authHeader)
         IN  IF token = Nil
             THEN [ok |-> FALSE, auth |-> NoAuth,
                   error |-> << "Missing or invalid Authorization header" >>]
             ELSE LET v == verifyJWTAt(token[1].token, e, clockTimestamp)
                  IN  IF v.ok THEN v
                      ELSE [v EXCEPT !.error = << "Authentication failed" >> \o @]

\* what the caller gets when the handler's catch rethrows (server.ts:179-182)
McpError(message) ==
    [code |-> "InternalError", message |-> << "Error executing tool" >> \o message]

\* the tokens tried: a good one with each expiry, one with each single
\* defect, and a good one with each pair of scope claims
GoodPayload(scope, scopes, exp) ==
    JWTPayload("u1", "t1", scope, scopes, Some(0), exp)
ScopeClaims == {Undefined, Claim("number", << >>)} \cup { Claim("string", x) : x \in Strings }
ScopesClaims ==
    { Undefined, Claim("array", << >>), Claim("array", << << "a" >>, << "b", "a" >> >>),
      Claim("string", << "a" >>) }
Expiries == { Nil, Some(Minutes(10)), Some(Minutes(16)), Some(Minutes(60)) }
DefaultScope == Claim("string", << "a" >>)

Jwts ==
    { Jwt(TRUE, Audience, GoodPayload(DefaultScope, Undefined, x)) : x \in Expiries }
    \cup { Jwt(TRUE, Audience, GoodPayload(sc, scs, Some(Minutes(10)))) :
               sc \in ScopeClaims, scs \in ScopesClaims }
    \cup { Jwt(FALSE, Audience, GoodPayload(DefaultScope, Undefined, Some(Minutes(10)))),
           Jwt(TRUE, "other", GoodPayload(DefaultScope, Undefined, Some(Minutes(10)))),
           Jwt(TRUE, Audience,
               JWTPayload("u1", "t1", DefaultScope, Undefined, Nil, Some(Minutes(10)))),
           Jwt(TRUE, Audience,
               JWTPayload("", "t1", DefaultScope, Undefined, Some(0), Some(Minutes(10)))),
           Jwt(TRUE, Audience,
               JWTPayload("u1", "", DefaultScope, Undefined, Some(0), Some(Minutes(10)))) }

AuthHeaders ==
    { NoBearerHeader("missing"), NoBearerHeader("malformed") }
        \cup { BearerHeader(t) : t \in Jwts }

\* the moments the token is presented at, in ms: 1 min after iat, and at
\* the edges maxAge and exp = iat + 16 min have with the clock tolerance
AuthClocks ==
    { 1000 * t : t \in { Minutes(1), Minutes(17) - 1, Minutes(17), Minutes(18) } }

AuthEnvs ==
    { [NODE_ENV |-> "production", SKIP_AUTH |-> "false",
       AUTH_PUBLIC_KEY |-> k.AUTH_PUBLIC_KEY, AUTH_JWKS_URL |-> k.AUTH_JWKS_URL] :
          k \in KeyEnvs }

\* the handler authenticates the request (server.ts:143-146) and, when that
\* throws, rethrows to the caller
Authenticate ==
    /\ presented # Nil
    /\ verdict = Nil
    /\ LET a == authenticateRequestAt(presented[1], env.NODE_ENV = "development",
                                      env, now \div 1000)
       IN  verdict' = Some([ok |-> a.ok, auth |-> a.auth,
                            received |-> IF a.ok THEN Nil ELSE Some(McpError(a.error))])
    /\ UNCHANGED << presented, env, now, sessions, sessionsByDataset, issued, nCalls,
                    calls, auditLog, responses, backendCalls, storeWrites,
                    auditWritable, apiOps >>

InitAuth ==
    /\ env \in AuthEnvs
    /\ now \in AuthClocks
    /\ sessions = << >>
    /\ sessionsByDataset = << >>
    /\ issued = {}
    /\ nCalls = 0
    /\ calls = << >>
    /\ auditLog = << >>
    /\ responses = << >>
    /\ backendCalls = {}
    /\ storeWrites = {}
    /\ auditWritable = TRUE
    /\ apiOps = 0
    /\ presented \in { Some(h) : h \in AuthHeaders }
    /\ verdict = Nil

NextAuth == Authenticate

SpecAuth == InitAuth /\ [][NextAuth]_vars

\* -------------------------------------------------------------- properties
CallIds == DOMAIN calls \cup DOMAIN responses
Call(id) == IF id \in DOMAIN calls THEN calls[id] ELSE responses[id]
AuditOf(id) == { i \in DOMAIN auditLog : auditLog[i].audit_id = id }
BackendCallsOf(id) == { b \in backendCalls : b.audit_id = id }
NoEffect(id) == BackendCallsOf(id) = {} /\ id \notin storeWrites

HasScope(auth, scope) == scope \in auth.scopes \/ "*" \in auth.scopes
IsErrorResponse(r) == ~r.thrown /\ r.result[1].shape = "ErrorResponse"
ErrorCode(r) == IF IsErrorResponse(r) THEN r.result[1].error ELSE None

\* the call got as far as the READY gate of runAnalysis
ReachedGate(c) ==
    /\ c.tool = "toorpia_run_analysis"
    /\ c.authed
    /\ HasScope(c.auth, "mcp:analyze")
    /\ c.args.k = "run"

OwnedByCaller(c) ==
    /\ c.atCall.session # Nil
    /\ c.atCall.session[1].owner = Owner(c.auth.user, c.auth.tenant)

GateHeld(c) == OwnedByCaller(c) /\ c.atCall.session[1].state = "READY"

\* C1: runAnalysisWithSession is sent only for a call at whose gate check the
\* session id was known, owned by the caller and READY; every other call that
\* gets to the gate answers SESSION_NOT_FOUND, ACCESS_DENIED or
\* PREPROCESS_REQUIRED and sends nothing to the backend
C1_ReadyGate ==
    /\ \A b \in backendCalls :
           b.op = "runAnalysisWithSession" =>
               ReachedGate(Call(b.audit_id)) /\ GateHeld(Call(b.audit_id))
    /\ \A id \in DOMAIN responses :
           ReachedGate(responses[id]) /\ ~GateHeld(responses[id]) =>
               /\ ErrorCode(responses[id]) \in
                      {"SESSION_NOT_FOUND", "ACCESS_DENIED", "PREPROCESS_REQUIRED"}
               /\ BackendCallsOf(id) = {}

C1_Witness ==
    /\ \E b \in backendCalls : b.op = "runAnalysisWithSession"
    /\ \E id \in DOMAIN responses :
           ReachedGate(responses[id]) /\ ~GateHeld(responses[id])

\* a confirm call whose validation the backend answered with valid finishes
ConfirmFinishes(id) ==
    /\ id \in DOMAIN calls
    /\ id \notin DOMAIN calls'
    /\ calls[id].op = "validateProcessedData"
    /\ responses'[id].replyOk = "true"

\* the session the dataset index holds for the call's dataset is the one the
\* call looked up, it is SUGGESTED and lists the chosen preset
ConfirmableNow(id) ==
    LET d == calls[id].args.dataset_id
    IN  /\ d \in DOMAIN sessionsByDataset
        /\ Some(sessionsByDataset[d]) = calls[id].atCall.sid
        /\ sessionsByDataset[d] \in DOMAIN sessions
        /\ sessions[sessionsByDataset[d]].state = "SUGGESTED"
        /\ calls[id].args.manifest.preset_id \in
               Range(sessions[sessionsByDataset[d]].suggestedPresetIds)

\* C2: confirming a SUGGESTED session with a suggested preset and a valid
\* artifact succeeds, makes that very session READY with processed.presetId
\* the chosen preset, and returns that session's id
C2_ConfirmSameSession ==
    [][\A id \in DOMAIN calls :
          ConfirmFinishes(id) /\ ConfirmableNow(id) =>
              LET sid == sessionsByDataset[calls[id].args.dataset_id]
                  r == responses'[id]
              IN  /\ ~r.thrown
                  /\ r.result[1].ready
                  /\ r.result[1].session_id = Some(sid)
                  /\ sid \in DOMAIN sessions'
                  /\ sessions'[sid].state = "READY"
                  /\ sessions'[sid].processed # Nil
                  /\ sessions'[sid].processed[1].presetId =
                         calls[id].args.manifest.preset_id]_vars

\* C3: suggest, then confirm with a returned preset and a valid artifact,
\* by one caller holding mcp:profile and mcp:analyze and with no sweep in
\* between: confirm returns a session id with which run_analysis passes the
\* READY gate and reaches the backend
C3_FlowCompletable ==
    [][\A id \in DOMAIN calls :
          (/\ ConfirmFinishes(id)
           /\ ConfirmableNow(id)
           /\ HasScope(calls[id].auth, "mcp:profile")
           /\ HasScope(calls[id].auth, "mcp:analyze")
           /\ OwnedByCaller(calls[id])) =>
              LET r == responses'[id]
              IN  /\ ~r.thrown
                  /\ r.result[1].session_id # Nil
                  /\ runAnalysisBegin(Store(sessions', sessionsByDataset', issued'),
                                      RunArgs(r.result[1].session_id[1]),
                                      calls[id].auth, id).kind = "await"]_vars

StoreCallerAuths == { verifyJWT(h).auth : h \in StoreCallers }

WithState(st, sid, state) ==
    [st EXCEPT !.sessions = [st.sessions EXCEPT ![sid].state = state]]

\* C5: a caller who is not the owner gets ACCESS_DENIED with an empty next
\* list whatever the session's state, and the gate's answer to that caller is
\* the same for two stores that differ only in that session's state
C5_OwnerBeforeState ==
    /\ \A sid \in DOMAIN sessions, auth \in StoreCallerAuths, state \in State :
           Owner(auth.user, auth.tenant) # sessions[sid].owner =>
               LET g1 == checkReadyGate(CurrentStore, sid, auth, 0)
                   g2 == checkReadyGate(WithState(CurrentStore, sid, state), sid, auth, 0)
               IN  /\ ~g1.passed /\ ~g2.passed
                   /\ g1.error = g2.error
                   /\ g1.error.error = "ACCESS_DENIED"
                   /\ g1.error.next = << >>
    /\ \A id \in DOMAIN responses :
           LET r == responses[id]
           IN  ReachedGate(r) /\ r.atCall.session # Nil /\ ~OwnedByCaller(r) =>
                   /\ ~r.thrown
                   /\ r.result[1] = errorNext("ACCESS_DENIED", << >>, id)

C5_Witness ==
    \E i, j \in DOMAIN responses :
        /\ i # j
        /\ \A id \in {i, j} :
               /\ ReachedGate(responses[id])
               /\ responses[id].atCall.session # Nil
               /\ ~OwnedByCaller(responses[id])
        /\ responses[i].atCall.sid = responses[j].atCall.sid
        /\ responses[i].atCall.session[1].state = "READY"
        /\ responses[j].atCall.session[1].state # "READY"

\* C6: every finished call has exactly one audit record carrying its audit
\* id, and an ErrorResponse it returned carries the same id
C6_OneAuditRecord ==
    \A id \in DOMAIN responses :
        /\ Cardinality(AuditOf(id)) = 1
        /\ IsErrorResponse(responses[id]) => responses[id].result[1].audit_id = id

AuthenticationFailed(r) == ~r.authed
ScopeRejected(r) ==
    /\ r.thrown
    /\ r.message \in {"Insufficient permissions: mcp:profile scope required",
                      "Insufficient permissions: mcp:analyze scope required"}
OwnerRejected(r) == ErrorCode(r) = "ACCESS_DENIED"

\* C7: an authentication or authorization failure (bad credential, missing
\* scope, wrong session owner) reaches the caller as an error and no audit
\* record of that call says success (whether the record gets written at all
\* is C6)
C7_AuthFailuresAudited ==
    \A id \in DOMAIN responses :
        LET r == responses[id]
        IN  AuthenticationFailed(r) \/ ScopeRejected(r) \/ OwnerRejected(r) =>
                /\ r.thrown \/ IsErrorResponse(r)
                /\ \A i \in AuditOf(id) : ~auditLog[i].success

\* the operator enabled the bypass
BypassEnabled == env.NODE_ENV = "development" /\ env.SKIP_AUTH = "true"
VerifiedBearer(h) == h.kind = "bearer" /\ h.verifies

\* C8: a call runs under the fixed dev-user identity only when the bypass is
\* enabled (NODE_ENV=development and SKIP_AUTH=true); otherwise a call that
\* gets past authentication presented a verified bearer token
C8_BypassOnlyWhenEnabled ==
    \A id \in CallIds :
        LET c == Call(id)
        IN  c.authed =>
                /\ c.auth = DevAuth => BypassEnabled
                /\ ~BypassEnabled => VerifiedBearer(c.header)

\* C9: with the bypass not enabled, a call whose credential is missing,
\* malformed or fails verification ends in an error and has no effect: no
\* backend request, no change of the session store
C9_NoAnonymousDowngrade ==
    \A id \in CallIds :
        ~BypassEnabled /\ Call(id).header \in BadHeaders =>
            /\ id \in DOMAIN responses
            /\ responses[id].thrown
            /\ NoEffect(id)

RequiredScope(tool) ==
    CASE tool = "toorpia_suggest_preprocess" -> "mcp:profile"
      [] tool = "toorpia_confirm_preprocessed" -> "mcp:profile"
      [] tool = "toorpia_run_analysis" -> "mcp:analyze"
      [] OTHER -> None

\* C10: suggest and confirm run only with mcp:profile or *, run_analysis only
\* with mcp:analyze or *; upload, status and feedback are never refused for
\* scope; a call refused for scope changes no session and asks the backend
\* nothing
C10_ScopeEnforcement ==
    /\ \A id \in CallIds :
           LET c == Call(id)
           IN  (/\ c.authed
                /\ RequiredScope(c.tool) # None
                /\ ~HasScope(c.auth, RequiredScope(c.tool))) =>
                   /\ id \in DOMAIN responses
                   /\ ScopeRejected(responses[id])
    /\ \A id \in DOMAIN responses :
           /\ ScopeRejected(responses[id]) => NoEffect(id)
           /\ RequiredScope(responses[id].tool) = None => ~ScopeRejected(responses[id])

C10_Witness ==
    /\ \E id \in DOMAIN responses :
           /\ ScopeRejected(responses[id])
           /\ responses[id].tool = "toorpia_suggest_preprocess"
    /\ \E id \in CallIds :
           /\ Call(id).tool = "toorpia_upload_data"
           /\ Call(id).auth.scopes = {"mcp:analyze"}
           /\ BackendCallsOf(id) # {}

\* a step of the server, not a direct use of the store's operations
ServerStep == apiOps' = apiOps

\* the run_analysis calls that finish in this step on session sid
FinishingRuns(sid) ==
    { id \in DOMAIN calls \ DOMAIN calls' :
          /\ calls[id].op = "runAnalysisWithSession"
          /\ calls[id].args.session_id = sid }

SessionsOf(d) == { sid \in DOMAIN sessions : sessions[sid].datasetId = d }
IsNewest(sid, S) == \A other \in S : other.rnd <= sid.rnd

\* C12: a session created for a dataset that already has one takes over the
\* dataset index, so getSessionByDataset returns the newest session only,
\* while every older session stays, unchanged, under its own id; a session
\* leaves the store only once it is older than 24 h
C12_Superseding ==
    [][/\ \A sid \in DOMAIN sessions' \ DOMAIN sessions :
              LET d == sessions'[sid].datasetId
              IN  /\ getSessionByDataset(Store(sessions', sessionsByDataset', issued'), d)
                         = Some(sessions'[sid])
                  /\ sessionsByDataset'[d] = sid
                  /\ \A old \in SessionsOf(d) :
                         getSession(Store(sessions', sessionsByDataset', issued'), old)
                             = Some(sessions[old])
       /\ \A sid \in DOMAIN sessions \ DOMAIN sessions' : now - sid.ts > maxAgeMs
       /\ \A d \in DOMAIN sessionsByDataset' :
              IsNewest(sessionsByDataset'[d],
                       { sid \in DOMAIN sessions' : sessions'[sid].datasetId = d })]_vars

C12_Witness ==
    \E d \in DOMAIN sessionsByDataset :
        \E old \in SessionsOf(d) :
            /\ old # sessionsByDataset[d]
            /\ sessionsByDataset[d] \in SessionsOf(d)
            /\ now > old.ts

\* whether the dataset index names session sid
Indexed(sid) == \E d \in DOMAIN sessionsByDataset : sessionsByDataset[d] = sid

\* C13: a session created at T is in neither index at any time later than
\* T + 24 h, and in the session index, and in the dataset index unless a
\* newer session of its dataset took its place, at any time before T + 24 h
C13_Expiry ==
    \A sid \in issued :
        /\ now - sid.ts > maxAgeMs => sid \notin DOMAIN sessions /\ ~Indexed(sid)
        /\ now - sid.ts < maxAgeMs =>
               /\ sid \in DOMAIN sessions
               /\ IsNewest(sid, SessionsOf(sessions[sid].datasetId)) => Indexed(sid)

\* C14: every entry of the dataset index names a stored session of that
\* dataset, and a step that removes a session leaves no index entry naming it
C14_IndexConsistency ==
    [][/\ \A d \in DOMAIN sessionsByDataset' :
              /\ sessionsByDataset'[d] \in DOMAIN sessions'
              /\ sessions'[sessionsByDataset'[d]].datasetId = d
       /\ \A sid \in DOMAIN sessions \ DOMAIN sessions' :
              \A d \in DOMAIN sessionsByDataset' : sessionsByDataset'[d] # sid]_vars

\* the sweep has removed a session while a newer one stays in the store
C14_Witness ==
    /\ issued \ DOMAIN sessions # {}
    /\ DOMAIN sessions # {}

\* a finished call is a confirm that the backend validated and that succeeded
ConfirmValidated(r) == r.op = "validateProcessedData" /\ r.replyOk = "true"
ConfirmSucceeded(r) == ConfirmValidated(r) /\ ~r.thrown /\ r.result[1].ready

OwnerGate(sid) ==
    checkReadyGate(CurrentStore, sid,
                   AuthContext(sessions[sid].owner.user, sessions[sid].owner.tenant,
                               {"mcp:analyze"}), 0)

\* the error is PREPROCESS_REQUIRED and its first remediation is this tool
Remediates(error, tool) ==
    /\ error.error = "PREPROCESS_REQUIRED"
    /\ Len(error.next) >= 1
    /\ error.next[1].tool = tool

\* the remediation of a SUGGESTED session: confirm, for the session's
\* dataset, the preset pre-filled with the first suggested one
RemediatesConfirm(error, session) ==
    /\ Remediates(error, "toorpia_confirm_preprocessed")
    /\ error.next[1].dataset_id = session.datasetId
    /\ Len(session.suggestedPresetIds) > 0 =>
           error.next[1].preset_id = session.suggestedPresetIds[1]

\* C16: the gate answers the owner of a REGISTERED session with
\* PREPROCESS_REQUIRED whose first remediation is toorpia_suggest_preprocess,
\* and the owner of a SUGGESTED session with PREPROCESS_REQUIRED whose first
\* remediation is toorpia_confirm_preprocessed with manifest.preset_id the
\* first suggested preset; run_analysis returns that answer
C16_GateRemediation ==
    /\ \A sid \in DOMAIN sessions :
           /\ sessions[sid].state = "REGISTERED" =>
                  /\ ~OwnerGate(sid).passed
                  /\ Remediates(OwnerGate(sid).error, "toorpia_suggest_preprocess")
           /\ sessions[sid].state = "SUGGESTED" =>
                  /\ ~OwnerGate(sid).passed
                  /\ RemediatesConfirm(OwnerGate(sid).error, sessions[sid])
    /\ \A id \in DOMAIN responses :
           LET r == responses[id]
           IN  ReachedGate(r) /\ OwnedByCaller(r) =>
                   /\ r.atCall.session[1].state = "REGISTERED" =>
                          /\ IsErrorResponse(r)
                          /\ Remediates(r.result[1], "toorpia_suggest_preprocess")
                   /\ r.atCall.session[1].state = "SUGGESTED" =>
                          /\ IsErrorResponse(r)
                          /\ RemediatesConfirm(r.result[1], r.atCall.session[1])

C16_Witness ==
    \E i, j \in DOMAIN responses :
        /\ ReachedGate(responses[i]) /\ OwnedByCaller(responses[i])
        /\ ReachedGate(responses[j]) /\ OwnedByCaller(responses[j])
        /\ responses[i].atCall.session[1].state = "REGISTERED"
        /\ responses[j].atCall.session[1].state = "SUGGESTED"
        /\ Len(responses[j].atCall.session[1].suggestedPresetIds) > 0

\* C17: an error response has an empty next list exactly when it is
\* ACCESS_DENIED; SESSION_NOT_FOUND and PREPROCESS_REQUIRED always name a
\* remediating call
C17_ActionableErrors ==
    \A id \in DOMAIN responses :
        IsErrorResponse(responses[id]) =>
            (responses[id].result[1].next = << >>
                 <=> responses[id].result[1].error = "ACCESS_DENIED")

\* the token of the header being authenticated
PresentedJwt == presented[1].token
IsBearer == presented # Nil /\ presented[1].kind = "bearer"

\* C18: a token whose exp lies more than 15 minutes after its iat is
\* rejected by authentication
C18_LifetimeCap ==
    (/\ verdict # Nil
     /\ IsBearer
     /\ PresentedJwt.payload.iat # Nil
     /\ PresentedJwt.payload.exp # Nil
     /\ PresentedJwt.payload.exp[1] - PresentedJwt.payload.iat[1] > maxAge)
        => ~verdict[1].ok

\* the class the specification gives the failure of the presented header
FailureClass ==
    IF ~IsBearer THEN "AUTHENTICATION_MISSING"
    ELSE IF ~getPublicKey(env).ok THEN "AUTHENTICATION_UNAVAILABLE"
    ELSE "AUTHENTICATION_INVALID"

\* C19: the error the caller receives for a failed authentication names the
\* class of the failure, as its code or within its message
C19_Classified ==
    verdict # Nil /\ ~verdict[1].ok =>
        \/ verdict[1].received[1].code = FailureClass
        \/ FailureClass \in Range(verdict[1].received[1].message)

\* the non-empty maximal runs of non-space characters of a string
Segments(str) ==
    { SubSeq(str, p[1], p[2]) :
          p \in { q \in (1..Len(str)) \X (1..Len(str)) :
                      /\ q[1] <= q[2]
                      /\ q[1] = 1 \/ str[q[1] - 1] = " "
                      /\ q[2] = Len(str) \/ str[q[2] + 1] = " "
                      /\ \A k \in q[1]..q[2] : str[k] # " " } }

WithoutScopeClaims(token) ==
    [token EXCEPT !.payload.scope = Undefined, !.payload.scopes = Undefined]

\* C20: the scope set of a verified token is the list claim when the token
\* has one, else the non-empty space-separated segments of the string claim,
\* else empty; the scope claims never make verification fail
C20_ScopeParsing ==
    verdict # Nil /\ IsBearer =>
        /\ verdict[1].ok =
               verifyJWTAt(WithoutScopeClaims(PresentedJwt), env, now \div 1000).ok
        /\ verdict[1].ok =>
               verdict[1].auth.scopes =
                   IF PresentedJwt.payload.scopes.type = "array"
                   THEN Range(PresentedJwt.payload.scopes.value)
                   ELSE IF PresentedJwt.payload.scope.type = "string"
                   THEN Segments(PresentedJwt.payload.scope.value)
                   ELSE {}

\* a verified token without the list claim, whose string claim is one
\* segment between two spaces
C20_Witness ==
    /\ verdict # Nil /\ IsBearer
    /\ verdict[1].ok
    /\ PresentedJwt.payload.scopes.type # "array"
    /\ PresentedJwt.payload.scope = Claim("string", << " ", "a", " " >>)
    /\ verdict[1].auth.scopes = { << "a" >> }


\* the call got as far as the body of confirmPreprocessed
ReachedConfirm(c) ==
    /\ c.tool = "toorpia_confirm_preprocessed"
    /\ c.authed
    /\ HasScope(c.auth, "mcp:profile")
    /\ c.args.k = "confirm"

\* C21: a confirm call for a dataset without an entry in the dataset index
\* returns SESSION_NOT_FOUND whose next list is one call of
\* toorpia_suggest_preprocess for that dataset id; it asks the backend
\* nothing and no step that finishes it touches the session store
C21_ConfirmSessionNotFound ==
    [][\A id \in DOMAIN responses' \ DOMAIN responses :
           LET r == responses'[id]
           IN  ReachedConfirm(r) /\ r.atCall.sid = Nil =>
                   /\ ~r.thrown
                   /\ r.result[1] =
                          errorNext("SESSION_NOT_FOUND",
                              << [tool |-> "toorpia_suggest_preprocess",
                                  dataset_id |-> r.args.dataset_id,
                                  preset_id |-> None] >>, id)
                   /\ BackendCallsOf(id)' = {}
                   /\ sessions' = sessions
                   /\ sessionsByDataset' = sessionsByDataset
                   /\ issued' = issued]_vars

\* a confirm call was answered SESSION_NOT_FOUND, and the store has issued a
\* session whose dataset the index no longer names
C21_Witness ==
    \E id \in DOMAIN responses :
        /\ ReachedConfirm(responses[id])
        /\ responses[id].atCall.sid = Nil
        /\ ErrorCode(responses[id]) = "SESSION_NOT_FOUND"
        /\ issued # {}
        /\ sessionsByDataset = << >>

\* the confirm call found a session that had not been offered its preset
PresetNotSuggested(c) ==
    /\ ReachedConfirm(c)
    /\ c.atCall.session # Nil
    /\ c.args.manifest.preset_id \notin Range(c.atCall.session[1].suggestedPresetIds)

\* the confirm call's artifact was found invalid by the backend
ArtifactInvalid(c) ==
    /\ ReachedConfirm(c)
    /\ c.op = "validateProcessedData"
    /\ c.replyOk = "false"

\* C22: a confirm call whose preset is not among the session's suggested
\* presets, or whose artifact the backend finds invalid, fails with an error
\* and leaves the session store as it was; the preset is checked before the
\* backend is asked
C22_ConfirmValidation ==
    [][\A id \in DOMAIN responses' \ DOMAIN responses :
           LET r == responses'[id]
           IN  /\ PresetNotSuggested(r) =>
                      /\ r.thrown
                      /\ r.message = "Preprocessing confirmation failed: Invalid preset_id"
                      /\ BackendCallsOf(id)' = {}
                      /\ sessions' = sessions
                      /\ sessionsByDataset' = sessionsByDataset
               /\ ArtifactInvalid(r) =>
                      /\ r.thrown
                      /\ ~PresetNotSuggested(r)
                      /\ sessions' = sessions
                      /\ sessionsByDataset' = sessionsByDataset]_vars

\* both failures happened, each on a session that is still stored in the
\* state the call found it in
C22_Witness ==
    \E i, j \in DOMAIN responses :
        /\ PresetNotSuggested(responses[i])
        /\ ArtifactInvalid(responses[j])
        /\ \A k \in {i, j} :
               /\ responses[k].atCall.sid[1] \in DOMAIN sessions
               /\ sessions[responses[k].atCall.sid[1]] = responses[k].atCall.session[1]

\* the session ids and dataset ids the store has no entry for
UnknownSessionIds == (issued \cup {UnknownSessionId}) \ DOMAIN sessions
UnknownDatasets == (Datasets \cup {"no_such_dataset"}) \ DOMAIN sessionsByDataset

\* C23: updateSession on an id the store does not hold returns false and
\* changes nothing, and the two lookups answer not-found for keys the store
\* does not hold
C23_UnknownSession ==
    /\ \A sid \in UnknownSessionIds :
           /\ getSession(CurrentStore, sid) = Nil
           /\ \A state \in State, processed \in {Nil, Some(ApiProcessed)} :
                  updateSession(CurrentStore, sid, state, processed) =
                      [ok |-> FALSE, store |-> CurrentStore]
    /\ \A d \in UnknownDatasets : getSessionByDataset(CurrentStore, d) = Nil

\* the store holds a session, an id issued earlier is no longer held, and
\* the dataset of both has no index entry
C23_Witness ==
    /\ DOMAIN sessions # {}
    /\ issued \ DOMAIN sessions # {}
    /\ Datasets \subseteq UnknownDatasets


\* the finished call an audit record was written for
AuditedCall(entry) == responses[entry.audit_id]

SameAnswer(r, t) ==
    /\ r.thrown = t.thrown
    /\ r.message = t.message
    /\ r.result = t.result

\* the answer the call finishing in this step gives, had the audit file
\* accepted the append: for a call resumed from its await, and for a call
\* that finishes without awaiting
AnswersAsIfAudited(id) ==
    LET r == responses'[id]
    IN  IF id \in DOMAIN calls
        THEN \E reply \in Replies(calls[id].op) :
                 /\ r.replyOk = (IF reply.ok THEN "true" ELSE "false")
                 /\ SameAnswer(r,
                        handlerTail(auditLog, id, r.tool, r.args, r.header,
                            [ok |-> TRUE, auth |-> r.auth, error |-> None],
                            resume(CurrentStore, calls[id], id, reply).outcome,
                            TRUE))
        ELSE \E fileOk \in BOOLEAN :
                 LET a == authenticateRequest(r.header, HandlerSkipAuth)
                     step == IF a.ok
                             THEN executeTool(CurrentStore, r.tool, r.args,
                                              a.auth, id, fileOk)
                             ELSE Throw(a.error)
                 IN  /\ step.kind # "await"
                     /\ SameAnswer(r,
                            handlerTail(auditLog, id, r.tool, r.args, r.header,
                                        a, step, TRUE))

\* C25: a call answers as it would have answered with a writable audit
\* file: a failed append of the audit record changes neither the result nor
\* whether the call ends in an error
C25_AuditFailSoft ==
    [][\A id \in DOMAIN responses' \ DOMAIN responses :
           AnswersAsIfAudited(id)]_vars

\* a call returned a successful result although its audit record could not
\* be appended
C25_Witness ==
    /\ ~auditWritable
    /\ \E id \in DOMAIN responses :
           /\ responses[id].args # UndefinedArgs
           /\ ~responses[id].thrown
           /\ responses[id].result[1].success = "true"
           /\ AuditOf(id) = {}

\* C26: the audit log only grows at its end: after every step the log it
\* held before is a prefix of the log it holds
C26_AppendOnly ==
    [][/\ Len(auditLog') >= Len(auditLog)
       /\ SubSeq(auditLog', 1, Len(auditLog)) = auditLog]_vars

\* two calls have their records in the log, in the order they finished
C26_Witness ==
    /\ Len(auditLog) >= 2
    /\ auditLog[1].audit_id # auditLog[2].audit_id


\* every session id the store can issue within the bounds
AllSessionIds ==
    { SessionId(t * TickMs, r) : t \in 0..MaxTicks, r \in 1..MaxApiOps }

\* session sid is stored and older than the maximum age
Expired(sid) == sid \in DOMAIN sessions /\ now - sid.ts > maxAgeMs

\* session sid is found neither by its id nor through the dataset index
Gone(sid) == getSession(CurrentStore, sid) = Nil /\ ~Indexed(sid)

\* C27: with the sweep firing on its timer, every stored session older than
\* 24 hours, whatever its state, is eventually removed, and from then on it
\* is found neither by its id nor by its dataset id
C27_EventuallySwept ==
    \A sid \in AllSessionIds : Expired(sid) ~> [] Gone(sid)

\* the store has been used to its bound, and every session it issued has
\* grown older than the maximum age and been swept
C27_Witness ==
    /\ issued # {}
    /\ \A sid \in issued : now - sid.ts > maxAgeMs /\ Gone(sid)
    /\ apiOps = MaxApiOps


\* what updateSession(sid, state, processed) may change in store st: the
\* state of session sid, and its processed record when one is supplied
UpdateFrame(st, sid, state, processed) ==
    LET u == updateSession(st, sid, state, processed)
        old == st.sessions[sid]
        new == u.store.sessions[sid]
    IN  /\ u.ok
        /\ u.store.byDataset = st.byDataset
        /\ u.store.issued = st.issued
        /\ DOMAIN u.store.sessions = DOMAIN st.sessions
        /\ \A other \in DOMAIN st.sessions \ {sid} :
               u.store.sessions[other] = st.sessions[other]
        /\ new.state = state
        /\ new.processed = (IF processed # Nil THEN processed ELSE old.processed)
        /\ new.datasetId = old.datasetId
        /\ new.owner = old.owner
        /\ new.suggestedPresetIds = old.suggestedPresetIds

\* C28: updateSession changes only the state of the session it addresses,
\* and its processed record when one is supplied; the session's dataset,
\* owner and suggested presets, the other sessions and the dataset index
\* stay as they are, so no step changes the dataset, owner or suggested
\* presets of a stored session
C28_UpdateFrame ==
    [][/\ \A sid \in DOMAIN sessions', state \in State,
             processed \in {Nil, Some(ApiProcessed)} :
              UpdateFrame(Store(sessions', sessionsByDataset', issued'),
                          sid, state, processed)
       /\ \A sid \in DOMAIN sessions \cap DOMAIN sessions' :
              /\ sessions'[sid].datasetId = sessions[sid].datasetId
              /\ sessions'[sid].owner = sessions[sid].owner
              /\ sessions'[sid].suggestedPresetIds = sessions[sid].suggestedPresetIds]_vars

\* a session with suggested presets was updated to READY with a processed
\* record and is still the one its dataset's index entry names
C28_Witness ==
    \E sid \in DOMAIN sessions :
        /\ sessions[sid].state = "READY"
        /\ sessions[sid].processed = Some(ApiProcessed)
        /\ Len(sessions[sid].suggestedPresetIds) > 0
        /\ Indexed(sid)


\* the calls that finish in this step
Finishing == DOMAIN responses' \ DOMAIN responses

\* C29: a run_analysis call whose backend analysis failed leaves every
\* session in the state it was in: a session moves from READY to ANALYZED
\* only when the backend reported success
C29_AnalyzedOnlyOnSuccess ==
    [][\A id \in Finishing :
           (/\ responses'[id].op = "runAnalysisWithSession"
            /\ responses'[id].replyOk = "false")
               => \A sid \in DOMAIN sessions :
                      /\ sid \in DOMAIN sessions'
                      /\ sessions'[sid].state = sessions[sid].state]_vars

StoreAfter == Store(sessions', sessionsByDataset', issued')

\* C30: a call by an identity that does not own the session the dataset
\* index names for a dataset changes neither what getSessionByDataset
\* returns for that dataset nor any session of another owner
C30_TenantIsolation ==
    [][\A id \in Finishing :
           LET r == responses'[id]
               caller == Owner(r.auth.user, r.auth.tenant)
           IN  r.authed =>
                   /\ \A d \in DOMAIN sessionsByDataset :
                          sessions[sessionsByDataset[d]].owner # caller =>
                              getSessionByDataset(StoreAfter, d) =
                                  getSessionByDataset(CurrentStore, d)
                   /\ \A sid \in DOMAIN sessions :
                          sessions[sid].owner # caller =>
                              /\ sid \in DOMAIN sessions'
                              /\ sessions'[sid] = sessions[sid]]_vars


\* this step removes sessions from the store and adds none: a sweep that
\* found something expired
Sweeping ==
    /\ DOMAIN sessions' # DOMAIN sessions
    /\ DOMAIN sessions' \subseteq DOMAIN sessions

\* C31: a sweep leaves the dataset index entry of every dataset whose
\* indexed session, the one created last for it, is not older than the
\* maximum age: getSessionByDataset returns that session after the sweep as
\* before
C31_SweepSparesSuccessor ==
    [][Sweeping =>
           \A d \in DOMAIN sessionsByDataset :
               now - sessionsByDataset[d].ts <= maxAgeMs =>
                   /\ getSessionByDataset(StoreAfter, d) # Nil
                   /\ getSessionByDataset(StoreAfter, d) =
                          getSessionByDataset(CurrentStore, d)]_vars

\* the calls that asked the backend to analyse session sid
AnalysesOf(sid) ==
    { id \in CallIds :
          /\ Call(id).atCall.sid = Some(sid)
          /\ BackendCall(id, "runAnalysisWithSession") \in backendCalls }

\* C32: the backend is asked to analyse a session at most once, also when
\* two run_analysis calls of its owner overlap at the await on the backend
C32_AnalysedOnce ==
    \A sid \in issued : Cardinality(AnalysesOf(sid)) <= 1

\* C33: every audit record names the user and tenant that authentication
\* resolved for its call when the call came in; a call that failed
\* authentication has no record under another identity
C33_AuditIdentity ==
    \A i \in DOMAIN auditLog :
        LET c == AuditedCall(auditLog[i])
        IN  /\ c.authed
            /\ auditLog[i].user = c.auth.user
            /\ auditLog[i].tenant = c.auth.tenant

\* the call's answer is a failure: an error thrown, an ErrorResponse, or a
\* result saying success: false
FailureAnswer(r) ==
    \/ r.thrown
    \/ IsErrorResponse(r)
    \/ r.result[1].success = "false"

\* C34: an audit record says success only when the answer of its call is
\* not a failure
C34_AuditSuccessFlag ==
    \A i \in DOMAIN auditLog :
        auditLog[i].success => ~FailureAnswer(AuditedCall(auditLog[i]))


\* the finished call is a suggest call that got its answer from the
\* backend's profile request
SuggestProfiled(r) ==
    /\ r.tool = "toorpia_suggest_preprocess"
    /\ r.op = "getDataProfile"

\* C35: a suggest call whose profile request failed ends in an error and
\* leaves the session store as it was; one whose profile request succeeded
\* adds exactly one session, for its dataset, in state SUGGESTED, with at
\* least one suggested preset, owned by the caller's user and tenant, named
\* by the dataset index and returned to the caller
C35_SuggestCreatesSession ==
    [][\A id \in Finishing :
           LET r == responses'[id]
           IN  SuggestProfiled(r) =>
                   /\ r.replyOk = "false" =>
                          /\ r.thrown
                          /\ StoreAfter = CurrentStore
                   /\ r.replyOk = "true" =>
                          /\ ~r.thrown
                          /\ Cardinality(DOMAIN sessions' \ DOMAIN sessions) = 1
                          /\ \A sid \in DOMAIN sessions :
                                 /\ sid \in DOMAIN sessions'
                                 /\ sessions'[sid] = sessions[sid]
                          /\ \A sid \in DOMAIN sessions' \ DOMAIN sessions :
                                 /\ sessions'[sid].datasetId = r.args.dataset_id
                                 /\ sessions'[sid].state = "SUGGESTED"
                                 /\ sessions'[sid].processed = Nil
                                 /\ Len(sessions'[sid].suggestedPresetIds) > 0
                                 /\ sessions'[sid].owner =
                                        Owner(r.auth.user, r.auth.tenant)
                                 /\ getSessionByDataset(StoreAfter, r.args.dataset_id)
                                        = Some(sessions'[sid])
                                 /\ r.result[1].session_id = Some(sid)]_vars

\* one suggest call failed at the profile request and another one created
\* the session the dataset index names
C35_Witness ==
    \E i, j \in DOMAIN responses :
        /\ SuggestProfiled(responses[i]) /\ responses[i].replyOk = "false"
        /\ SuggestProfiled(responses[j]) /\ responses[j].replyOk = "true"
        /\ responses[j].result[1].session_id # Nil
        /\ Indexed(responses[j].result[1].session_id[1])

====
